---- MODULE Spec2Model ----
(***************************************************************************)
(* A model of the aws-lambda component: deploy / remove of one function    *)
(* and its roles against an abstract provider (IAM roles, Lambda           *)
(* functions), keeping the component's state record (this.state).          *)
(*                                                                         *)
(* The repository holds three generations of the component.  The variable  *)
(* gen fixes which one a behaviour runs:                                   *)
(*   gen = 1  src/unnamed/part_004 (47-192) with src/unnamed/part_002      *)
(*   gen = 2  src/src/serverless.js        with src/src/utils.js           *)
(*   gen = 3  src/unnamed/part_003 (185-349) with src/unnamed/part_001     *)
(* Every provider call is one step; its response is chosen by the          *)
(* provider (success, not found, other error, role not assumable).         *)
(***************************************************************************)
EXTENDS Integers, Sequences, FiniteSets, TLC

VARIABLES
    gen,         \* which generation of the component runs
    state,       \* this.state, the component's persisted record
    roles,       \* provider: role name -> "absent" | "bare" | "attached"
    fns,         \* provider: <<region, name>> -> function record or NoFn
    pc,          \* where the current pass stands; "idle" between passes
    rolePc,      \* generation 3: the execution-role task of Promise.all
    metaPc,      \* generation 3: the meta-role task of Promise.all
    op,          \* the current or last pass: "deploy" | "remove" | "none"
    rawIn,       \* what the caller passed to the current or last pass
    inputs,      \* the prepared inputs (config) of the pass
    prevLambda,  \* what the fetch of the live function returned
    calls,       \* provider calls issued by the pass, in order
    result,      \* how the last pass ended: "ok" or the error thrown
    repeat,      \* the pass repeats the inputs of a successful deploy right before it
    rejected,    \* a create-function call of the pass was answered role-not-assumable
    before,      \* this.state as it was when the current pass started
    randomId     \* the random id the running process drew when the module loaded

vars == <<gen, state, roles, fns, pc, rolePc, metaPc, op, rawIn, inputs,
          prevLambda, calls, result, repeat, rejected, before, randomId>>

----------------------------------------------------------------------------
(* Bounds of the model *)

\* create-function calls of one pass that the call log keeps apart
MaxAttempts == 2

----------------------------------------------------------------------------
(* Values *)

\* JS undefined / a missing key / the empty string: all falsy
None == ""

Gens == {1, 2, 3}

UserNames == {"f1"}
Regions == {"us-east-1", "eu-west-1"}
Sources == {"srcA"}
Memories == {3008}
Timeouts == {30}
AliasNames == {"live"}
Concurrencies == {5}
UserRoleName == "u1"

\* `x || y` on strings
Or(x, y) == IF x # None THEN x ELSE y
\* `x || y` on numbers (0 is falsy)
OrNum(x, y) == IF x # 0 THEN x ELSE y
\* property read: a missing key reads as undefined
Get(rec, k) == IF k \in DOMAIN rec THEN rec[k] ELSE None

instanceName == "inst"
stage == "dev"
\* the ids `Math.random()` can give: one is drawn per process, at module load
RandomIds == {"rnd", "rnd2"}

RoleArnOf(roleName) == "arn:aws:iam::acct:role/" \o roleName
FunctionArnOf(region, name) == "arn:aws:lambda:" \o region \o ":function:" \o name
\* the digest the provider computes of deployed code
CodeSha256(code) == "sha256:" \o code

----------------------------------------------------------------------------
(* The provider and the component's state record *)

GeneratedName == instanceName \o "-" \o stage \o "-" \o randomId
GeneratedName_g12 == "aws-lambda-component-" \o stage \o "-" \o randomId
AllNames == UserNames
              \cup {instanceName \o "-" \o stage \o "-" \o id : id \in RandomIds}
              \cup {"aws-lambda-component-" \o stage \o "-" \o id : id \in RandomIds}

\* role names the component derives, by generation
defaultLambdaRoleName(name) == name \o "-lambda-role"
metaRoleName == instanceName \o "-meta-role"
iamRoleName(name) == name \o "-role"
configRoleName == "lambda-role-" \o stage \o "-" \o randomId

RoleNames == {UserRoleName, metaRoleName}
               \cup {"lambda-role-" \o stage \o "-" \o id : id \in RandomIds}
               \cup {defaultLambdaRoleName(n) : n \in AllNames}
               \cup {iamRoleName(n) : n \in AllNames}

\* `arn.split('/')[1]`: the role's name, read back from its ARN
RoleNameOfArn(arn) == CHOOSE n \in RoleNames : RoleArnOf(n) = arn

\* an id list is a string: EmptyList is `[]`, None is `false` / undefined
EmptyList == "[]"
\* the VpcConfig of a function that is in no VPC
EmptyVpc == [SecurityGroupIds |-> EmptyList, SubnetIds |-> EmptyList]
NoFn == [hash |-> None, memory |-> 0, timeout |-> 0, role |-> None, vpc |-> EmptyVpc]

\* `inputs.vpcConfig`, undefined when the caller gave none
NoVpcConfig == [securityGroupIds |-> None, subnetIds |-> None]
VpcConfigs == {[securityGroupIds |-> "sg-1", subnetIds |-> "subnet-1"]}
VpcConfigOf(in) == IF "vpcConfig" \in DOMAIN in THEN in.vpcConfig ELSE NoVpcConfig

\* createLambdaFunction: `...(inputs.securityGroupIds && { VpcConfig: {...} })`
CreateVpcParams(in) ==
    IF in.securityGroupIds # None
    THEN [VpcConfig |-> [SecurityGroupIds |-> in.securityGroupIds,
                         SubnetIds |-> in.subnetIds]]
    ELSE <<>>

\* a configuration update that sends no VpcConfig unless the inputs hold one
UpdateVpcParams_onlyWhenGiven(in) == CreateVpcParams(in)

\* updateLambdaFunctionConfig: the VpcConfig of the inputs, or empty lists
UpdateVpcParams(in) ==
    IF in.securityGroupIds # None
    THEN [VpcConfig |-> [SecurityGroupIds |-> in.securityGroupIds,
                         SubnetIds |-> in.subnetIds]]
    ELSE [VpcConfig |-> EmptyVpc]

\* the provider keeps a function's VpcConfig when a request carries none
AppliedVpc(current, params) ==
    IF "VpcConfig" \in DOMAIN params THEN params.VpcConfig ELSE current
FnKeys == Regions \X AllNames

EmptyState ==
    [name |-> None, region |-> None, arn |-> None,
     roleArn |-> None, autoRoleArn |-> None,
     userRoleArn |-> None, defaultLambdaRoleArn |-> None,
     defaultLambdaRoleName |-> None,
     metaRoleName |-> None, metaRoleArn |-> None]

NoInputs == [name |-> None]
Null == [null |-> TRUE]
NotFetched == [fetched |-> FALSE]

\* what a caller may pass to deploy, by generation: roleName is an input of
\* generation 3, roleArn of generations 1 and 2; generation 1 is run in the
\* default region only
RawInputs(g) ==
    [name : {None} \cup UserNames,
     region : IF g = 1 THEN {None} ELSE {None, "eu-west-1"},
     roleName : IF g = 3 THEN {None, UserRoleName} ELSE {None},
     roleArn : IF g = 3 THEN {None} ELSE {None, RoleArnOf(UserRoleName)},
     src : {None} \cup Sources,
     memory : {0} \cup Memories,
     timeout : {0},
     monitoring : {None}]

\* a deploy called with no inputs at all
NoRawInputs ==
    [name |-> None, region |-> None, roleName |-> None, roleArn |-> None,
     src |-> None, memory |-> 0, timeout |-> 0, monitoring |-> None]

\* further inputs a caller may pass to a deploy of generation 3, one group of
\* them at a time: memory and timeout; roleName and roleArn; aliasName and
\* provisionedConcurrency; monitoring
ConfigInputs_g3 ==
    {[NoRawInputs EXCEPT !.memory = m, !.timeout = t] :
        m \in {0} \cup Memories, t \in {0} \cup Timeouts}
RoleInputs_g3 ==
    {[NoRawInputs EXCEPT !.roleName = n, !.roleArn = a] :
        n \in {None, UserRoleName}, a \in {None, RoleArnOf(UserRoleName)}}
AliasInputs_g3 ==
    {[aliasName |-> a, provisionedConcurrency |-> c] @@ NoRawInputs :
        a \in {None} \cup AliasNames, c \in {0} \cup Concurrencies}
MonitoringInputs_g3 ==
    {[NoRawInputs EXCEPT !.monitoring = m] : m \in {None, "true", "false"}}
VpcInputs ==
    {[vpcConfig |-> v] @@ NoRawInputs : v \in {NoVpcConfig} \cup VpcConfigs}
FurtherInputs_g3 ==
    ConfigInputs_g3 \cup RoleInputs_g3 \cup AliasInputs_g3 \cup MonitoringInputs_g3
      \cup VpcInputs

\* the code a pass deploys: the bundled template when no src is given
CodeOf(src) == IF src = None THEN "_src" ELSE src

\* the call log of the current pass; create-function entries saturate
Count(log, opName) == Cardinality({i \in DOMAIN log : log[i][1] = opName})
Logged(log, opName, target) ==
    IF opName = "createFunction" /\ Count(log, opName) >= MaxAttempts
    THEN log
    ELSE Append(log, <<opName, target>>)

\* a pass ends by throwing; pc "done" is the pass handing its outcome to the caller
Throw(kind) ==
    /\ pc' = "done"
    /\ result' = kind

\* every pass starts by recording what it was called with
StartPass(opName, raw, in) ==
    /\ op' = opName
    /\ rawIn' = raw
    /\ inputs' = in
    /\ repeat' = (opName = "deploy" /\ op = "deploy" /\ result = "ok" /\ rawIn = raw)
    /\ prevLambda' = NotFetched
    /\ rejected' = FALSE
    /\ before' = state

NoPendingTask == rolePc # "wait" /\ metaPc # "wait"

\* the pass has returned or thrown and no task of it is still running: its locals
\* (prepared inputs, fetched record, call log) are gone; this.state and the
\* provider keep what the pass did
returnToCaller ==
    /\ pc = "done"
    /\ NoPendingTask
    /\ pc' = "idle"
    /\ rawIn' = IF op = "deploy" /\ result = "ok" THEN rawIn ELSE NoInputs
    /\ inputs' = NoInputs
    /\ prevLambda' = NotFetched
    /\ calls' = <<>>
    /\ repeat' = FALSE
    /\ rejected' = FALSE
    /\ before' = state
    /\ UNCHANGED <<gen, randomId, state, roles, fns, rolePc, metaPc, op, result>>

\* the error a provider call is answered with: None when the call succeeded
OtherError == "ServiceException"
\* deleteFunction on a function that does not exist
DeleteFunctionError(r, key) ==
    IF r = "error" THEN OtherError
    ELSE IF fns[key] = NoFn THEN "ResourceNotFoundException"
    ELSE None
\* detachRolePolicy on a role that does not exist or does not have the policy
DetachRolePolicyError(r, roleName) ==
    IF r = "error" THEN OtherError
    ELSE IF roles[roleName] # "attached" THEN "NoSuchEntity"
    ELSE None
\* deleteRole on a role that does not exist
DeleteRoleError(r, roleName) ==
    IF r = "error" THEN OtherError
    ELSE IF roles[roleName] = "absent" THEN "NoSuchEntity"
    ELSE None

\* how a pass that throws the error ends
ErrorKind(code) == IF code = OtherError THEN "providerError" ELSE code

\* deleteLambdaFunction's catch: `if (error.code !== 'ResourceNotFoundException') throw error`
Rethrown_deleteLambdaFunction(code) == code # "ResourceNotFoundException"

\* removeRole without a catch: every error leaves it
Rethrown_removeRole_all(code) == TRUE

\* removeRole's catch: `if (error.code !== 'NoSuchEntity') throw error`
Rethrown_removeRole(code) == code # "NoSuchEntity"

\* the record getLambdaFunction / getLambda builds from the provider's answer
LambdaRecord(region, name) ==
    LET f == fns[<<region, name>>] IN
    IF f = NoFn
    THEN Null
    ELSE [name |-> name,
          timeout |-> f.timeout,
          runtime |-> "nodejs12.x",
          role |-> [arn |-> f.role],
          memory |-> f.memory,
          hash |-> f.hash,
          arn |-> FunctionArnOf(region, name),
          securityGroupIds |-> f.vpc.SecurityGroupIds,
          subnetIds |-> f.vpc.SubnetIds]

----------------------------------------------------------------------------
(* Generation 3: src/unnamed/part_003 (185-349), src/unnamed/part_001 *)

DefaultMemory_g3 == 1028
DefaultTimeout_g3 == 10

Name_g3_ignoresState(in, st) == Or(in.name, GeneratedName)

\* `inputs.name || instance.state.name || `${instance.name}-${instance.stage}-${randomId}``
Name_g3(in, st) == Or(in.name, Or(st.name, GeneratedName))

prepareInputs_g3(in, st) ==
    [name |-> Name_g3(in, st),
     roleName |-> in.roleName,
     memory |-> OrNum(in.memory, DefaultMemory_g3),
     timeout |-> OrNum(in.timeout, DefaultTimeout_g3),
     src |-> Or(in.src, None),
     runtime |-> "nodejs12.x",
     region |-> Or(in.region, "us-east-1"),
     securityGroupIds |-> VpcConfigOf(in).securityGroupIds,
     subnetIds |-> VpcConfigOf(in).subnetIds,
     arn |-> None]

\* the condition under which createOrUpdateMetaRole deploys the meta role
MetaRoleWanted_g3(in) ==
    Get(in, "monitoring") = "true" \/ Get(in, "monitoring") = None

\* the role createLambdaFunction / updateLambdaFunctionConfig pass
RoleParam_g3(st) == Or(st.userRoleArn, st.defaultLambdaRoleArn)

\* `this.state.name && this.state.name !== inputs.name`
NameChanged_g3(st, in) == st.name # None /\ st.name # in.name

\* the region check left out
RegionChanged_g3_dropped(st, in) == FALSE

\* `this.state.region && this.state.region !== inputs.region`
RegionChanged_g3(st, in) == st.region # None /\ st.region # in.region

\* the condition of the branch inverted
AfterUpdateCode_ignoresFailure(r) == "updateConfig"

\* `await updateLambdaFunctionCode(...)` followed by `await updateLambdaFunctionConfig(...)`:
\* the configuration update is reached only when the awaited upload resolved
AfterUpdateCode(r) == IF r = "ok" THEN "updateConfig" ELSE "done"

\* what lambda.getFunctionConfiguration answers for a function of this name
GetFunctionResponses(region, name) ==
    {IF fns[<<region, name>>] = NoFn THEN "ResourceNotFoundException" ELSE "ok", OtherError}

Rethrown_getLambdaFunction_none(code) == FALSE

\* getLambdaFunction's catch: only a not-found answer becomes null
Rethrown_getLambdaFunction(code) == code # "ResourceNotFoundException"

CreateOrUpdate_g3_inverted(prev) == IF prev = Null THEN "updateCode" ELSE "create"

\* `if (!prevLambda)`: create the function, else update its code and then its configuration
CreateOrUpdate_g3(prev) == IF prev = Null THEN "create" ELSE "updateCode"

\* remove returns early only when the state holds neither a name nor a role
NothingToRemove_g3_roles(st) == st.name = None /\ st.defaultLambdaRoleName = None

\* `if (!this.state.name)`: remove returns without doing anything
NothingToRemove_g3(st) == st.name = None

\* Promise.all rejects with the first rejection; a later one is dropped
Reject_g3(kind) ==
    IF pc = "roles"
    THEN Throw(kind)
    ELSE UNCHANGED <<pc, result>>

deploy_g3(raw) ==
    /\ gen = 3
    /\ pc = "idle"
    /\ NoPendingTask
    /\ LET in == prepareInputs_g3(raw, state) IN
       /\ StartPass("deploy", raw, in)
       /\ IF NameChanged_g3(state, in)
          THEN /\ Throw("nameChange")
               /\ calls' = <<>>
               /\ rolePc' = "idle"
               /\ metaPc' = "idle"
          ELSE IF RegionChanged_g3(state, in)
          THEN /\ Throw("regionChange")
               /\ calls' = <<>>
               /\ rolePc' = "idle"
               /\ metaPc' = "idle"
          ELSE /\ pc' = "roles"
               /\ result' = "none"
               /\ rolePc' = "wait"
               /\ metaPc' = IF MetaRoleWanted_g3(in) THEN "wait" ELSE "done"
               /\ calls' =
                    LET first ==
                          IF in.roleName # None
                          THEN <<"getRole", in.roleName>>
                          ELSE <<"deployRole", defaultLambdaRoleName(in.name)>>
                    IN IF MetaRoleWanted_g3(in)
                       THEN <<first, <<"deployRole", metaRoleName>> >>
                       ELSE <<first>>
    /\ UNCHANGED <<gen, randomId, state, roles, fns>>

\* the user's role of an earlier pass left in the state
StateWithDefaultRole_g3_keepsUserRole(st, dn) ==
    [st EXCEPT !.defaultLambdaRoleName = dn,
               !.defaultLambdaRoleArn = RoleArnOf(dn)]

\* the default role recorded, and `delete instance.state.userRoleArn`
StateWithDefaultRole_g3(st, dn) ==
    [st EXCEPT !.defaultLambdaRoleName = dn,
               !.defaultLambdaRoleArn = RoleArnOf(dn),
               !.userRoleArn = None]

createOrUpdateFunctionRole_g3 ==
    /\ gen = 3
    /\ rolePc = "wait"
    /\ \E r \in {"ok", "error"} :
         IF inputs.roleName # None
         THEN /\ IF r = "ok" /\ roles[inputs.roleName] # "absent"
                 THEN /\ state' = [state EXCEPT
                             !.userRoleArn = RoleArnOf(inputs.roleName),
                             !.defaultLambdaRoleArn = None]
                      /\ rolePc' = "done"
                      /\ UNCHANGED <<pc, result>>
                 ELSE /\ rolePc' = "failed"
                      /\ Reject_g3(IF r = "ok" THEN "roleNotFound" ELSE "providerError")
                      /\ UNCHANGED state
              /\ UNCHANGED roles
         ELSE LET dn == defaultLambdaRoleName(inputs.name) IN
              IF r = "ok"
              THEN /\ roles' = [roles EXCEPT ![dn] = "attached"]
                   /\ state' = StateWithDefaultRole_g3(state, dn)
                   /\ rolePc' = "done"
                   /\ UNCHANGED <<pc, result>>
              ELSE /\ rolePc' = "failed"
                   /\ Reject_g3("providerError")
                   /\ UNCHANGED <<state, roles>>
    /\ UNCHANGED <<gen, randomId, before, fns, metaPc, op, rawIn, inputs, prevLambda, calls, repeat, rejected>>

\* the meta role written over the state the pass started from
StateWithMetaRole_g3_fromSnapshot(st) ==
    [before EXCEPT !.metaRoleName = metaRoleName,
                   !.metaRoleArn = RoleArnOf(metaRoleName)]

\* `instance.state.metaRoleName = roleName; instance.state.metaRoleArn = result.roleArn`
StateWithMetaRole_g3(st) ==
    [st EXCEPT !.metaRoleName = metaRoleName,
               !.metaRoleArn = RoleArnOf(metaRoleName)]

createOrUpdateMetaRole_g3 ==
    /\ gen = 3
    /\ metaPc = "wait"
    /\ \E r \in {"ok", "error"} :
         IF r = "ok"
         THEN /\ roles' = [roles EXCEPT ![metaRoleName] = "attached"]
              /\ state' = StateWithMetaRole_g3(state)
              /\ metaPc' = "done"
              /\ UNCHANGED <<pc, result>>
         ELSE /\ metaPc' = "failed"
              /\ Reject_g3("providerError")
              /\ UNCHANGED <<state, roles>>
    /\ UNCHANGED <<gen, randomId, before, fns, rolePc, op, rawIn, inputs, prevLambda, calls, repeat, rejected>>

\* deploy's closing assignments to this.state
\* the assignment to this.state.arn left out
UpdateState_g3_noArn(in) ==
    state' = [state EXCEPT !.name = in.name, !.region = in.region]

UpdateState_g3(in) ==
    state' = [state EXCEPT !.name = in.name, !.arn = in.arn, !.region = in.region]

\* what deploy returns (securityGroupIds and subnetIds are not modelled)
Outputs_g3(in) == [name |-> in.name, arn |-> in.arn]

RoleStepsResolved_functionRoleOnly == rolePc = "done"

\* `await Promise.all([createOrUpdateFunctionRole(...), createOrUpdateMetaRole(...)])`
\* resolves when both tasks have resolved
RoleStepsResolved == rolePc = "done" /\ metaPc = "done"

getLambdaFunction_g3 ==
    /\ gen = 3
    /\ pc = "roles"
    /\ RoleStepsResolved
    /\ calls' = Logged(calls, "getFunctionConfiguration", inputs.name)
    /\ \E r \in GetFunctionResponses(inputs.region, inputs.name) :
         IF r # "ok" /\ Rethrown_getLambdaFunction(r)
         THEN /\ Throw(ErrorKind(r))
              /\ UNCHANGED <<prevLambda, inputs>>
         ELSE /\ prevLambda' = IF r = "ok"
                                THEN LambdaRecord(inputs.region, inputs.name)
                                ELSE Null
              /\ pc' = CreateOrUpdate_g3(prevLambda')
              \* `inputs.arn = prevLambda.arn` on the update branch
              /\ inputs' = IF CreateOrUpdate_g3(prevLambda') = "create"
                           THEN inputs
                           ELSE [inputs EXCEPT !.arn = Get(prevLambda', "arn")]
              /\ UNCHANGED result
    /\ UNCHANGED <<gen, randomId, before, state, roles, fns, rolePc, metaPc, op, rawIn, repeat, rejected>>

Retried_createLambdaFunction_always(r) == TRUE

\* createLambdaFunction's catch: only the error whose message says the role
\* cannot be assumed is answered by sleeping and calling again
Retried_createLambdaFunction(r) == r = "notAssumable"

createLambdaFunction_g3 ==
    /\ gen = 3
    /\ pc = "create"
    /\ calls' = Logged(calls, "createFunction", inputs.name)
    /\ \E r \in {"ok", "notAssumable", "error"} :
         CASE r = "ok" ->
                /\ fns' = [fns EXCEPT ![<<inputs.region, inputs.name>>] =
                              [hash |-> CodeSha256(CodeOf(inputs.src)),
                               memory |-> inputs.memory,
                               timeout |-> inputs.timeout,
                               role |-> RoleParam_g3(state),
                               vpc |-> AppliedVpc(EmptyVpc, CreateVpcParams(inputs))]]
                \* `inputs.arn = createResult.arn`
                /\ inputs' = [inputs EXCEPT !.arn = FunctionArnOf(inputs.region, inputs.name)]
                /\ UpdateState_g3(inputs')
                /\ pc' = "done"
                /\ result' = "ok"
                /\ UNCHANGED rejected
           [] r # "ok" /\ Retried_createLambdaFunction(r) ->
                /\ pc' = "sleep"
                /\ rejected' = (rejected \/ r = "notAssumable")
                /\ UNCHANGED <<fns, state, result, inputs>>
           [] OTHER ->
                /\ Throw("providerError")
                /\ UNCHANGED <<fns, state, rejected, inputs>>
    /\ UNCHANGED <<gen, randomId, before, roles, rolePc, metaPc, op, rawIn, prevLambda, repeat>>

\* `await sleep(..)` inside the catch: the timer fires and the function calls itself
sleep_g3 ==
    /\ gen = 3
    /\ pc = "sleep"
    /\ pc' = "create"
    /\ UNCHANGED <<gen, randomId, before, state, roles, fns, rolePc, metaPc, op, rawIn, inputs,
                   prevLambda, calls, result, repeat, rejected>>

updateLambdaFunctionCode_g3 ==
    /\ gen = 3
    /\ pc = "updateCode"
    /\ calls' = Logged(calls, "updateFunctionCode", inputs.name)
    /\ \E r \in {"ok", "error"} :
         /\ fns' = IF r = "ok"
                    THEN [fns EXCEPT ![<<inputs.region, inputs.name>>].hash =
                              CodeSha256(CodeOf(inputs.src))]
                    ELSE fns
         /\ pc' = AfterUpdateCode(r)
         /\ result' = IF AfterUpdateCode(r) = "done" THEN "providerError" ELSE result
    /\ UNCHANGED <<gen, randomId, before, state, roles, rolePc, metaPc, op, rawIn, inputs, prevLambda, repeat, rejected>>

\* the timeout of the update left at the default
functionConfigParams_g3_defaultTimeout(in, st) ==
    [memory |-> in.memory, timeout |-> DefaultTimeout_g3, role |-> RoleParam_g3(st)]

\* the parameters of updateFunctionConfiguration (MemorySize, Timeout, Role)
functionConfigParams_g3(in, st) ==
    [memory |-> in.memory, timeout |-> in.timeout, role |-> RoleParam_g3(st)]

updateLambdaFunctionConfig_g3 ==
    /\ gen = 3
    /\ pc = "updateConfig"
    /\ calls' = Logged(calls, "updateFunctionConfiguration", inputs.name)
    /\ \E r \in {"ok", "error"} :
         IF r = "ok"
         THEN /\ fns' = [fns EXCEPT ![<<inputs.region, inputs.name>>] =
                              [@ EXCEPT !.memory = functionConfigParams_g3(inputs, state).memory,
                                        !.timeout = functionConfigParams_g3(inputs, state).timeout,
                                        !.role = functionConfigParams_g3(inputs, state).role,
                                        !.vpc = AppliedVpc(@, UpdateVpcParams(inputs))]]
              /\ UpdateState_g3(inputs)
              /\ pc' = "done"
              /\ result' = "ok"
         ELSE /\ Throw("providerError")
              /\ UNCHANGED <<fns, state>>
    /\ UNCHANGED <<gen, randomId, before, roles, rolePc, metaPc, op, rawIn, inputs, prevLambda, repeat, rejected>>

\* where remove goes after a step of removeAllRoles
AfterFunctionRole_g3 == IF state.metaRoleName # None THEN "removeMetaRole" ELSE "deleteFunction"

\* this.state cleared whether or not deleteLambdaFunction threw
StateAfterDelete_g3_always(st, threw) == EmptyState

\* `await deleteLambdaFunction(...)` then `this.state = {}`: the assignment is
\* reached only when the await did not throw
StateAfterDelete_g3(st, threw) == IF threw THEN st ELSE EmptyState

\* the clients of remove made for the default region
FunctionRemoved_g3_defaultRegion(st) == <<"us-east-1", st.name>>

\* the function remove deletes: `getClients(this.credentials.aws, this.state.region)`
\* and `deleteLambdaFunction(clients.lambda, this.state.name)`
FunctionRemoved_g3(st) == <<st.region, st.name>>

remove_g3 ==
    /\ gen = 3
    /\ pc = "idle"
    /\ NoPendingTask
    /\ StartPass("remove", NoInputs, NoInputs)
    /\ calls' = <<>>
    /\ rolePc' = "idle"
    /\ metaPc' = "idle"
    /\ IF NothingToRemove_g3(state)
       THEN /\ pc' = "done"
            /\ result' = "ok"
       ELSE /\ pc' = IF state.defaultLambdaRoleName # None
                     THEN "removeFunctionRole"
                     ELSE AfterFunctionRole_g3
            /\ result' = "none"
    /\ UNCHANGED <<gen, randomId, state, roles, fns>>

removeAllRoles_function_g3 ==
    /\ gen = 3
    /\ pc = "removeFunctionRole"
    /\ calls' = Logged(calls, "removeRole", state.defaultLambdaRoleName)
    /\ \E r \in {"ok", "error"} :
         IF r = "ok"
         THEN /\ roles' = [roles EXCEPT ![state.defaultLambdaRoleName] = "absent"]
              /\ pc' = AfterFunctionRole_g3
              /\ UNCHANGED result
         ELSE /\ Throw("providerError")
              /\ UNCHANGED roles
    /\ UNCHANGED <<gen, randomId, before, state, fns, rolePc, metaPc, op, rawIn, inputs, prevLambda, repeat, rejected>>

removeAllRoles_meta_g3 ==
    /\ gen = 3
    /\ pc = "removeMetaRole"
    /\ calls' = Logged(calls, "removeRole", state.metaRoleName)
    /\ \E r \in {"ok", "error"} :
         IF r = "ok"
         THEN /\ roles' = [roles EXCEPT ![state.metaRoleName] = "absent"]
              /\ pc' = "deleteFunction"
              /\ UNCHANGED result
         ELSE /\ Throw("providerError")
              /\ UNCHANGED roles
    /\ UNCHANGED <<gen, randomId, before, state, fns, rolePc, metaPc, op, rawIn, inputs, prevLambda, repeat, rejected>>

deleteLambdaFunction_g3 ==
    /\ gen = 3
    /\ pc = "deleteFunction"
    /\ calls' = Logged(calls, "deleteFunction", state.name)
    /\ \E r \in {"ok", "error"} :
         LET code == DeleteFunctionError(r, FunctionRemoved_g3(state))
             threw == code # None /\ Rethrown_deleteLambdaFunction(code)
         IN
         /\ state' = StateAfterDelete_g3(state, threw)
         /\ IF threw
            THEN /\ Throw(ErrorKind(code))
                 /\ UNCHANGED fns
            ELSE /\ fns' = [fns EXCEPT ![FunctionRemoved_g3(state)] = NoFn]
                 /\ pc' = "done"
                 /\ result' = "ok"
    /\ UNCHANGED <<gen, randomId, before, roles, rolePc, metaPc, op, rawIn, inputs, prevLambda, repeat, rejected>>

\* metrics: `if (!inputs.rangeStart || !inputs.rangeEnd) throw`, then getMetrics
\* with region, metaRoleArn and name as this.state has them
metrics_g3(rangeGiven) ==
    /\ gen = 3
    /\ pc = "idle"
    /\ NoPendingTask
    /\ StartPass("metrics", NoInputs, NoInputs)
    /\ calls' = <<>>
    /\ rolePc' = "idle"
    /\ metaPc' = "idle"
    /\ IF rangeGiven
       THEN /\ pc' = "assumeRole"
            /\ result' = "none"
       ELSE Throw("rangeRequired")
    /\ UNCHANGED <<gen, randomId, state, roles, fns>>

\* getMetrics: sts.assumeRole with RoleArn: metaRoleArn. The SDK checks the
\* required parameters of a request before it sends it: with metaRoleArn
\* undefined the call throws and nothing reaches the provider
assumeRole_g3 ==
    /\ gen = 3
    /\ pc = "assumeRole"
    /\ IF state.metaRoleArn = None
       THEN /\ Throw("MissingRequiredParameter")
            /\ UNCHANGED calls
       ELSE /\ calls' = Logged(calls, "assumeRole", RoleNameOfArn(state.metaRoleArn))
            /\ \E r \in {"ok", "error"} :
                 IF r = "ok" /\ roles[RoleNameOfArn(state.metaRoleArn)] # "absent"
                 THEN /\ pc' = "getMetrics"
                      /\ UNCHANGED result
                 ELSE Throw("providerError")
    /\ UNCHANGED <<gen, randomId, before, state, roles, fns, rolePc, metaPc, op, rawIn, inputs,
                   prevLambda, repeat, rejected>>

\* getMetrics: extras.getMetrics for the resource { type: 'aws_lambda', functionName }
getMetrics_g3 ==
    /\ gen = 3
    /\ pc = "getMetrics"
    /\ calls' = Logged(calls, "getMetrics", state.name)
    /\ \E r \in {"ok", "error"} :
         IF r = "ok"
         THEN /\ pc' = "done"
              /\ result' = "ok"
         ELSE Throw("providerError")
    /\ UNCHANGED <<gen, randomId, before, state, roles, fns, rolePc, metaPc, op, rawIn, inputs,
                   prevLambda, repeat, rejected>>

Next_g3 ==
    \/ returnToCaller
    \/ \E raw \in RawInputs(3) : deploy_g3(raw)
    \/ createOrUpdateFunctionRole_g3
    \/ createOrUpdateMetaRole_g3
    \/ getLambdaFunction_g3
    \/ createLambdaFunction_g3
    \/ sleep_g3
    \/ updateLambdaFunctionCode_g3
    \/ updateLambdaFunctionConfig_g3
    \/ remove_g3
    \/ removeAllRoles_function_g3
    \/ removeAllRoles_meta_g3
    \/ deleteLambdaFunction_g3
    \/ \E rangeGiven \in BOOLEAN : metrics_g3(rangeGiven)
    \/ assumeRole_g3
    \/ getMetrics_g3

----------------------------------------------------------------------------
(* Generation 2: src/src/serverless.js, src/src/utils.js *)

DefaultMemory_g2 == 1028
DefaultTimeout_g2 == 10

prepareInputs_g2(in, st) ==
    [name |-> Or(in.name, Or(st.name, GeneratedName_g12)),
     roleArn |-> Or(in.roleArn, st.roleArn),
     autoRoleArn |-> None,
     memory |-> OrNum(in.memory, DefaultMemory_g2),
     timeout |-> OrNum(in.timeout, DefaultTimeout_g2),
     src |-> Or(in.src, "cwd"),
     runtime |-> "nodejs12.x",
     region |-> Or(in.region, "us-east-1"),
     securityGroupIds |-> VpcConfigOf(in).securityGroupIds,
     subnetIds |-> VpcConfigOf(in).subnetIds]

\* the role createLambdaFunction / updateLambdaFunctionConfig pass
RoleParam_g2(in) == Or(in.roleArn, in.autoRoleArn)

\* deploy, once the auto-created role is settled: remove it when a custom role is given
AfterAutoRole_g2(in, st) ==
    IF in.roleArn # None /\ st.autoRoleArn # None
    THEN "detachRolePolicy"
    ELSE "getFunction"

deploy_g2(raw) ==
    /\ gen = 2
    /\ pc = "idle"
    /\ LET in == prepareInputs_g2(raw, state) IN
       /\ StartPass("deploy", raw, in)
       /\ calls' = <<>>
       /\ IF state.name # None /\ state.name # in.name
          THEN Throw("nameChange")
          ELSE IF state.region # None /\ state.region # in.region
          THEN Throw("regionChange")
          ELSE /\ pc' = IF in.roleArn = None THEN "getRole" ELSE AfterAutoRole_g2(in, state)
               /\ result' = "none"
    /\ UNCHANGED <<gen, randomId, state, roles, fns, rolePc, metaPc>>

getRole_g2 ==
    /\ gen = 2
    /\ pc = "getRole"
    /\ calls' = Logged(calls, "getRole", iamRoleName(inputs.name))
    /\ \E r \in {"ok", "error"} :
         IF r = "error"
         THEN /\ Throw("providerError")
              /\ UNCHANGED <<state, inputs>>
         ELSE IF roles[iamRoleName(inputs.name)] # "absent"
         THEN /\ state' = [state EXCEPT !.autoRoleArn = RoleArnOf(iamRoleName(inputs.name))]
              /\ inputs' = [inputs EXCEPT !.autoRoleArn = RoleArnOf(iamRoleName(inputs.name))]
              /\ pc' = AfterAutoRole_g2(inputs', state')
              /\ UNCHANGED result
         ELSE \* NoSuchEntity: getRole returns undefined
              /\ pc' = "createRole"
              /\ UNCHANGED <<state, inputs, result>>
    /\ UNCHANGED <<gen, randomId, before, roles, fns, rolePc, metaPc, op, rawIn, prevLambda, repeat, rejected>>

createRole_g2 ==
    /\ gen = 2
    /\ pc = "createRole"
    /\ calls' = Logged(calls, "createRole", iamRoleName(inputs.name))
    /\ \E r \in {"ok", "error"} :
         IF r = "ok" /\ roles[iamRoleName(inputs.name)] = "absent"
         THEN /\ roles' = [roles EXCEPT ![iamRoleName(inputs.name)] = "bare"]
              /\ pc' = "attachRolePolicy"
              /\ UNCHANGED result
         ELSE /\ Throw("providerError")
              /\ UNCHANGED roles
    /\ UNCHANGED <<gen, randomId, before, state, fns, rolePc, metaPc, op, rawIn, inputs, prevLambda, repeat, rejected>>

attachRolePolicy_g2 ==
    /\ gen = 2
    /\ pc = "attachRolePolicy"
    /\ calls' = Logged(calls, "attachRolePolicy", iamRoleName(inputs.name))
    /\ \E r \in {"ok", "error"} :
         IF r = "ok"
         THEN /\ roles' = [roles EXCEPT ![iamRoleName(inputs.name)] = "attached"]
              /\ state' = [state EXCEPT !.autoRoleArn = RoleArnOf(iamRoleName(inputs.name))]
              /\ inputs' = [inputs EXCEPT !.autoRoleArn = RoleArnOf(iamRoleName(inputs.name))]
              /\ pc' = AfterAutoRole_g2(inputs', state')
              /\ UNCHANGED result
         ELSE /\ Throw("providerError")
              /\ UNCHANGED <<roles, state, inputs>>
    /\ UNCHANGED <<gen, randomId, before, fns, rolePc, metaPc, op, rawIn, prevLambda, repeat, rejected>>

\* where a pass goes once removeRole has returned
AfterRemoveRole == IF op = "deploy" THEN "getFunction" ELSE "deleteFunction"

\* removeRole, first call: detach the basic execution policy
detachRolePolicy(roleArn) ==
    /\ pc = "detachRolePolicy"
    /\ calls' = Logged(calls, "detachRolePolicy", RoleNameOfArn(roleArn))
    /\ \E r \in {"ok", "error"} :
         LET code == DetachRolePolicyError(r, RoleNameOfArn(roleArn)) IN
         IF code = None
         THEN /\ roles' = [roles EXCEPT ![RoleNameOfArn(roleArn)] = "bare"]
              /\ pc' = "deleteRole"
              /\ UNCHANGED result
         ELSE IF Rethrown_removeRole(code)
         THEN /\ Throw(ErrorKind(code))
              /\ UNCHANGED roles
         ELSE \* caught: removeRole returns without having called deleteRole
              /\ pc' = AfterRemoveRole
              /\ UNCHANGED <<roles, result>>

\* removeRole, second call: delete the role
deleteRole(roleArn) ==
    /\ pc = "deleteRole"
    /\ calls' = Logged(calls, "deleteRole", RoleNameOfArn(roleArn))
    /\ \E r \in {"ok", "error"} :
         LET code == DeleteRoleError(r, RoleNameOfArn(roleArn)) IN
         IF code # None /\ Rethrown_removeRole(code)
         THEN /\ Throw(ErrorKind(code))
              /\ UNCHANGED roles
         ELSE /\ roles' = [roles EXCEPT ![RoleNameOfArn(roleArn)] = "absent"]
              /\ pc' = AfterRemoveRole
              /\ UNCHANGED result

detachRolePolicy_g2 ==
    /\ gen = 2
    /\ detachRolePolicy(state.autoRoleArn)
    /\ UNCHANGED <<gen, randomId, before, state, fns, rolePc, metaPc, op, rawIn, inputs, prevLambda, repeat, rejected>>

deleteRole_g2 ==
    /\ gen = 2
    /\ deleteRole(state.autoRoleArn)
    /\ UNCHANGED <<gen, randomId, before, state, fns, rolePc, metaPc, op, rawIn, inputs, prevLambda, repeat, rejected>>

\* deploy's closing assignments to this.state
UpdateState_g2(arn) ==
    state' = [state EXCEPT !.name = inputs.name, !.arn = arn, !.region = inputs.region]

getLambdaFunction_g2 ==
    /\ gen = 2
    /\ pc = "getFunction"
    /\ calls' = Logged(calls, "getFunctionConfiguration", inputs.name)
    /\ \E r \in {"ok", "error"} :
         IF r = "ok"
         THEN /\ prevLambda' = LambdaRecord(inputs.region, inputs.name)
              /\ pc' = IF prevLambda' = Null THEN "create" ELSE "updateCode"
              /\ UNCHANGED result
         ELSE /\ Throw("providerError")
              /\ UNCHANGED prevLambda
    /\ UNCHANGED <<gen, randomId, before, state, roles, fns, rolePc, metaPc, op, rawIn, inputs, repeat, rejected>>

createLambdaFunction_g2 ==
    /\ gen = 2
    /\ pc = "create"
    /\ calls' = Logged(calls, "createFunction", inputs.name)
    /\ \E r \in {"ok", "notAssumable", "error"} :
         CASE r = "ok" ->
                /\ fns' = [fns EXCEPT ![<<inputs.region, inputs.name>>] =
                              [hash |-> CodeSha256(CodeOf(inputs.src)),
                               memory |-> inputs.memory,
                               timeout |-> inputs.timeout,
                               role |-> RoleParam_g2(inputs),
                               vpc |-> AppliedVpc(EmptyVpc, CreateVpcParams(inputs))]]
                /\ UpdateState_g2(FunctionArnOf(inputs.region, inputs.name))
                /\ pc' = "done"
                /\ result' = "ok"
                /\ UNCHANGED rejected
           [] r = "notAssumable" ->
                /\ pc' = "sleep"
                /\ rejected' = TRUE
                /\ UNCHANGED <<fns, state, result>>
           [] r = "error" ->
                /\ Throw("providerError")
                /\ UNCHANGED <<fns, state, rejected>>
    /\ UNCHANGED <<gen, randomId, before, roles, rolePc, metaPc, op, rawIn, inputs, prevLambda, repeat>>

\* `await sleep(..)` inside the catch: the timer fires and the function calls itself
sleep_g2 ==
    /\ gen = 2
    /\ pc = "sleep"
    /\ pc' = "create"
    /\ UNCHANGED <<gen, randomId, before, state, roles, fns, rolePc, metaPc, op, rawIn, inputs,
                   prevLambda, calls, result, repeat, rejected>>

updateLambdaFunctionCode_g2 ==
    /\ gen = 2
    /\ pc = "updateCode"
    /\ calls' = Logged(calls, "updateFunctionCode", inputs.name)
    /\ \E r \in {"ok", "error"} :
         /\ fns' = IF r = "ok"
                    THEN [fns EXCEPT ![<<inputs.region, inputs.name>>].hash =
                              CodeSha256(CodeOf(inputs.src))]
                    ELSE fns
         /\ pc' = AfterUpdateCode(r)
         /\ result' = IF AfterUpdateCode(r) = "done" THEN "providerError" ELSE result
    /\ UNCHANGED <<gen, randomId, before, state, roles, rolePc, metaPc, op, rawIn, inputs, prevLambda, repeat, rejected>>

updateLambdaFunctionConfig_g2 ==
    /\ gen = 2
    /\ pc = "updateConfig"
    /\ calls' = Logged(calls, "updateFunctionConfiguration", inputs.name)
    /\ \E r \in {"ok", "error"} :
         IF r = "ok"
         THEN /\ fns' = [fns EXCEPT ![<<inputs.region, inputs.name>>] =
                              [@ EXCEPT !.memory = inputs.memory,
                                        !.timeout = inputs.timeout,
                                        !.role = RoleParam_g2(inputs),
                                        !.vpc = AppliedVpc(@, UpdateVpcParams(inputs))]]
              /\ UpdateState_g2(prevLambda.arn)
              /\ pc' = "done"
              /\ result' = "ok"
         ELSE /\ Throw("providerError")
              /\ UNCHANGED <<fns, state>>
    /\ UNCHANGED <<gen, randomId, before, roles, rolePc, metaPc, op, rawIn, inputs, prevLambda, repeat, rejected>>

remove_g2 ==
    /\ gen = 2
    /\ pc = "idle"
    /\ StartPass("remove", NoInputs, NoInputs)
    /\ calls' = <<>>
    /\ IF state.name = None
       THEN /\ pc' = "done"
            /\ result' = "ok"
       ELSE /\ pc' = IF state.autoRoleArn # None THEN "detachRolePolicy" ELSE "deleteFunction"
            /\ result' = "none"
    /\ UNCHANGED <<gen, randomId, state, roles, fns, rolePc, metaPc>>

deleteLambdaFunction_g2 ==
    /\ gen = 2
    /\ pc = "deleteFunction"
    /\ calls' = Logged(calls, "deleteFunction", state.name)
    /\ \E r \in {"ok", "error"} :
         LET code == DeleteFunctionError(r, <<state.region, state.name>>) IN
         IF code # None /\ Rethrown_deleteLambdaFunction(code)
         THEN /\ Throw(ErrorKind(code))
              /\ UNCHANGED fns
         ELSE \* this.state is left as it is
              /\ fns' = [fns EXCEPT ![<<state.region, state.name>>] = NoFn]
              /\ pc' = "done"
              /\ result' = "ok"
    /\ UNCHANGED <<gen, randomId, before, state, roles, rolePc, metaPc, op, rawIn, inputs, prevLambda, repeat, rejected>>

Next_g2 ==
    \/ returnToCaller
    \/ \E raw \in RawInputs(2) : deploy_g2(raw)
    \/ getRole_g2
    \/ createRole_g2
    \/ attachRolePolicy_g2
    \/ detachRolePolicy_g2
    \/ deleteRole_g2
    \/ getLambdaFunction_g2
    \/ createLambdaFunction_g2
    \/ sleep_g2
    \/ updateLambdaFunctionCode_g2
    \/ updateLambdaFunctionConfig_g2
    \/ remove_g2
    \/ deleteLambdaFunction_g2

----------------------------------------------------------------------------
(* Generation 1: src/unnamed/part_004 (47-192), src/unnamed/part_002 *)

DefaultMemory_g1 == 512
DefaultTimeout_g1 == 10

getConfig(in, st) ==
    [name |-> Or(in.name, Or(st.name, GeneratedName_g12)),
     roleArn |-> Or(in.roleArn, st.roleArn),
     roleName |-> configRoleName,
     memory |-> OrNum(in.memory, DefaultMemory_g1),
     timeout |-> OrNum(in.timeout, DefaultTimeout_g1),
     src |-> Or(in.src, "cwd"),
     runtime |-> "nodejs12.x",
     region |-> Or(in.region, "us-east-1")]

\* ramda's pick: the keys the object does not have are left out
Pick(keys, rec) == [k \in keys \cap DOMAIN rec |-> rec[k]]

ChangeKeys_withName ==
    {"description", "runtime", "roleArn", "handler", "memory", "timeout",
     "env", "hash", "securityGroupIds", "subnetIds", "name"}

ChangeKeys ==
    {"description", "runtime", "roleArn", "handler", "memory", "timeout",
     "env", "hash", "securityGroupIds", "subnetIds"}

configChanged(prev, config) == Pick(ChangeKeys, config) # Pick(ChangeKeys, prev)

\* the `Replacing` step, then the write of this.state
AfterUpdate_g1 == IF state.name # None /\ state.name # inputs.name THEN "replacing" ELSE "save"

deploy_g1(raw) ==
    /\ gen = 1
    /\ pc = "idle"
    /\ LET config == getConfig(raw, state) IN
       /\ StartPass("deploy", raw, config)
       /\ pc' = IF config.roleArn = None THEN "createRole" ELSE "getFunction"
    /\ calls' = <<>>
    /\ result' = "none"
    /\ UNCHANGED <<gen, randomId, state, roles, fns, rolePc, metaPc>>

createRole_g1 ==
    /\ gen = 1
    /\ pc = "createRole"
    /\ calls' = Logged(calls, "createRole", inputs.roleName)
    /\ \E r \in {"ok", "error"} :
         IF r = "ok" /\ roles[inputs.roleName] = "absent"
         THEN /\ roles' = [roles EXCEPT ![inputs.roleName] = "bare"]
              /\ pc' = "attachRolePolicy"
              /\ UNCHANGED result
         ELSE /\ Throw("providerError")
              /\ UNCHANGED roles
    /\ UNCHANGED <<gen, randomId, before, state, fns, rolePc, metaPc, op, rawIn, inputs, prevLambda, repeat, rejected>>

attachRolePolicy_g1 ==
    /\ gen = 1
    /\ pc = "attachRolePolicy"
    /\ calls' = Logged(calls, "attachRolePolicy", inputs.roleName)
    /\ \E r \in {"ok", "error"} :
         IF r = "ok"
         THEN /\ roles' = [roles EXCEPT ![inputs.roleName] = "attached"]
              /\ inputs' = [inputs EXCEPT !.roleArn = RoleArnOf(inputs.roleName)]
              /\ state' = [state EXCEPT !.roleArn = RoleArnOf(inputs.roleName)]
              /\ pc' = "getFunction"
              /\ UNCHANGED result
         ELSE /\ Throw("providerError")
              /\ UNCHANGED <<roles, state, inputs>>
    /\ UNCHANGED <<gen, randomId, before, fns, rolePc, metaPc, op, rawIn, prevLambda, repeat, rejected>>

getLambda_g1 ==
    /\ gen = 1
    /\ pc = "getFunction"
    /\ calls' = Logged(calls, "getFunctionConfiguration", inputs.name)
    /\ \E r \in {"ok", "error"} :
         IF r = "ok"
         THEN LET prev == LambdaRecord(inputs.region, inputs.name)
                  config == inputs @@ [hash |-> CodeSha256(CodeOf(inputs.src))]
              IN /\ prevLambda' = prev
                 /\ pc' = IF prev = Null THEN "create"
                          ELSE IF ~configChanged(prev, config) THEN AfterUpdate_g1
                          ELSE IF prev.hash # config.hash THEN "updateCode"
                          ELSE "updateConfig"
                 /\ UNCHANGED result
         ELSE /\ Throw("providerError")
              /\ UNCHANGED prevLambda
    /\ UNCHANGED <<gen, randomId, before, state, roles, fns, rolePc, metaPc, op, rawIn, inputs, repeat, rejected>>

createLambda_g1 ==
    /\ gen = 1
    /\ pc = "create"
    /\ calls' = Logged(calls, "createFunction", inputs.name)
    /\ \E r \in {"ok", "notAssumable", "error"} :
         CASE r = "ok" ->
                /\ fns' = [fns EXCEPT ![<<inputs.region, inputs.name>>] =
                              [hash |-> CodeSha256(CodeOf(inputs.src)),
                               memory |-> inputs.memory,
                               timeout |-> inputs.timeout,
                               role |-> inputs.roleArn,
                               \* no VPC inputs are drawn for this generation
                               vpc |-> EmptyVpc]]
                /\ pc' = AfterUpdate_g1
                /\ UNCHANGED <<result, rejected>>
           [] r = "notAssumable" ->
                /\ pc' = "sleep"
                /\ rejected' = TRUE
                /\ UNCHANGED <<fns, result>>
           [] r = "error" ->
                /\ Throw("providerError")
                /\ UNCHANGED <<fns, rejected>>
    /\ UNCHANGED <<gen, randomId, before, state, roles, rolePc, metaPc, op, rawIn, inputs, prevLambda, repeat>>

\* `await sleep(..)` inside the catch: the timer fires and the function calls itself
sleep_g1 ==
    /\ gen = 1
    /\ pc = "sleep"
    /\ pc' = "create"
    /\ UNCHANGED <<gen, randomId, before, state, roles, fns, rolePc, metaPc, op, rawIn, inputs,
                   prevLambda, calls, result, repeat, rejected>>

updateLambdaCode_g1 ==
    /\ gen = 1
    /\ pc = "updateCode"
    /\ calls' = Logged(calls, "updateFunctionCode", inputs.name)
    /\ \E r \in {"ok", "error"} :
         /\ fns' = IF r = "ok"
                    THEN [fns EXCEPT ![<<inputs.region, inputs.name>>].hash =
                              CodeSha256(CodeOf(inputs.src))]
                    ELSE fns
         /\ pc' = AfterUpdateCode(r)
         /\ result' = IF AfterUpdateCode(r) = "done" THEN "providerError" ELSE result
    /\ UNCHANGED <<gen, randomId, before, state, roles, rolePc, metaPc, op, rawIn, inputs, prevLambda, repeat, rejected>>

updateLambdaConfig_g1 ==
    /\ gen = 1
    /\ pc = "updateConfig"
    /\ calls' = Logged(calls, "updateFunctionConfiguration", inputs.name)
    /\ \E r \in {"ok", "error"} :
         IF r = "ok"
         THEN /\ fns' = [fns EXCEPT ![<<inputs.region, inputs.name>>] =
                              [@ EXCEPT !.memory = inputs.memory,
                                        !.timeout = inputs.timeout,
                                        !.role = inputs.roleArn]]
              /\ pc' = AfterUpdate_g1
              /\ UNCHANGED result
         ELSE /\ Throw("providerError")
              /\ UNCHANGED fns
    /\ UNCHANGED <<gen, randomId, before, state, roles, rolePc, metaPc, op, rawIn, inputs, prevLambda, repeat, rejected>>

\* this.state = config; save
SaveConfig_g1 ==
    state' = [EmptyState EXCEPT
                 !.name = inputs.name,
                 !.region = inputs.region,
                 !.roleArn = inputs.roleArn,
                 !.arn = FunctionArnOf(inputs.region, inputs.name)]

\* the `Replacing` branch: the function of the previous name is deleted
deleteLambda_replacing_g1 ==
    /\ gen = 1
    /\ pc = "replacing"
    /\ calls' = Logged(calls, "deleteFunction", state.name)
    /\ \E r \in {"ok", "error"} :
         LET code == DeleteFunctionError(r, <<inputs.region, state.name>>) IN
         IF code # None /\ Rethrown_deleteLambdaFunction(code)
         THEN /\ Throw(ErrorKind(code))
              /\ UNCHANGED fns
         ELSE /\ fns' = [fns EXCEPT ![<<inputs.region, state.name>>] = NoFn]
              /\ pc' = "save"
              /\ UNCHANGED result
    /\ UNCHANGED <<gen, randomId, before, state, roles, rolePc, metaPc, op, rawIn, inputs, prevLambda, repeat, rejected>>

save_g1 ==
    /\ gen = 1
    /\ pc = "save"
    /\ SaveConfig_g1
    /\ pc' = "done"
    /\ result' = "ok"
    /\ UNCHANGED <<gen, randomId, before, roles, fns, rolePc, metaPc, op, rawIn, inputs, prevLambda, calls, repeat, rejected>>

remove_g1 ==
    /\ gen = 1
    /\ pc = "idle"
    /\ StartPass("remove", NoInputs, NoInputs)
    /\ calls' = <<>>
    /\ IF state.name = None
       THEN /\ pc' = "done"
            /\ result' = "ok"
       ELSE /\ pc' = IF state.roleArn # None THEN "detachRolePolicy" ELSE "deleteFunction"
            /\ result' = "none"
    /\ UNCHANGED <<gen, randomId, state, roles, fns, rolePc, metaPc>>

detachRolePolicy_g1 ==
    /\ gen = 1
    /\ detachRolePolicy(state.roleArn)
    /\ UNCHANGED <<gen, randomId, before, state, fns, rolePc, metaPc, op, rawIn, inputs, prevLambda, repeat, rejected>>

deleteRole_g1 ==
    /\ gen = 1
    /\ deleteRole(state.roleArn)
    /\ UNCHANGED <<gen, randomId, before, state, fns, rolePc, metaPc, op, rawIn, inputs, prevLambda, repeat, rejected>>

deleteLambda_g1 ==
    /\ gen = 1
    /\ pc = "deleteFunction"
    /\ calls' = Logged(calls, "deleteFunction", state.name)
    /\ \E r \in {"ok", "error"} :
         LET code == DeleteFunctionError(r, <<state.region, state.name>>) IN
         IF code # None /\ Rethrown_deleteLambdaFunction(code)
         THEN /\ Throw(ErrorKind(code))
              /\ UNCHANGED <<fns, state>>
         ELSE /\ fns' = [fns EXCEPT ![<<state.region, state.name>>] = NoFn]
              /\ state' = EmptyState
              /\ pc' = "done"
              /\ result' = "ok"
    /\ UNCHANGED <<gen, randomId, before, roles, rolePc, metaPc, op, rawIn, inputs, prevLambda, repeat, rejected>>

Next_g1 ==
    \/ returnToCaller
    \/ \E raw \in RawInputs(1) : deploy_g1(raw)
    \/ createRole_g1
    \/ attachRolePolicy_g1
    \/ getLambda_g1
    \/ createLambda_g1
    \/ sleep_g1
    \/ updateLambdaCode_g1
    \/ updateLambdaConfig_g1
    \/ deleteLambda_replacing_g1
    \/ save_g1
    \/ remove_g1
    \/ detachRolePolicy_g1
    \/ deleteRole_g1
    \/ deleteLambda_g1

----------------------------------------------------------------------------
(* The specification *)

InitGen(g) ==
    /\ gen = g
    /\ state = EmptyState
    /\ roles \in {[n \in RoleNames |-> IF n = UserRoleName THEN u ELSE "absent"] :
                     u \in {"absent", "attached"}}
    /\ fns = [k \in FnKeys |-> NoFn]
    /\ pc = "idle"
    /\ rolePc = "idle"
    /\ metaPc = "idle"
    /\ op = "none"
    /\ rawIn = NoInputs
    /\ inputs = NoInputs
    /\ prevLambda = NotFetched
    /\ calls = <<>>
    /\ result = "none"
    /\ repeat = FALSE
    /\ rejected = FALSE
    /\ before = EmptyState
    /\ randomId = "rnd"

Init1 == InitGen(1)
Init2 == InitGen(2)
Init3 == InitGen(3)

Spec1 == Init1 /\ [][Next_g1]_vars
Spec2 == Init2 /\ [][Next_g2]_vars
Spec3 == Init3 /\ [][Next_g3]_vars

\* generation 3 called with the further inputs
Next_g3_inputs ==
    \/ returnToCaller
    \/ \E raw \in FurtherInputs_g3 : deploy_g3(raw)
    \/ createOrUpdateFunctionRole_g3
    \/ createOrUpdateMetaRole_g3
    \/ getLambdaFunction_g3
    \/ createLambdaFunction_g3
    \/ sleep_g3
    \/ updateLambdaFunctionCode_g3
    \/ updateLambdaFunctionConfig_g3
    \/ remove_g3
    \/ removeAllRoles_function_g3
    \/ removeAllRoles_meta_g3
    \/ deleteLambdaFunction_g3
    \/ \E rangeGiven \in BOOLEAN : metrics_g3(rangeGiven)
    \/ assumeRole_g3
    \/ getMetrics_g3
SpecInputs3 == Init3 /\ [][Next_g3_inputs]_vars

\* After a deploy has returned, the process ends and a new one loads the module:
\* it draws its own randomId, and starts from the saved state, or from an empty
\* state when the state of the instance was not saved
restart(lost) ==
    /\ pc = "idle"
    /\ NoPendingTask
    /\ op = "deploy"
    /\ result = "ok"
    /\ randomId = "rnd"
    /\ \E id \in RandomIds \ {randomId} : randomId' = id
    /\ state' = IF lost THEN EmptyState ELSE state
    /\ before' = state'
    /\ UNCHANGED <<gen, roles, fns, pc, rolePc, metaPc, op, rawIn, inputs,
                   prevLambda, calls, result, repeat, rejected>>

Next_g3_restart ==
    \/ Next_g3_inputs
    \/ \E lost \in BOOLEAN : restart(lost)

SpecRestart3 == Init3 /\ [][Next_g3_restart]_vars

\* Change detection, applied to records of the shape the component compares
inputsChanged_g2(prevLambda_, lambda) ==
    Pick(ChangeKeys, lambda) # Pick(ChangeKeys, prevLambda_)

inputsChanged_g3(prevLambda_, lambda) ==
    Pick(ChangeKeys, lambda) # Pick(ChangeKeys, prevLambda_)

\* the helper of the running generation
Changed(prevLambda_, lambda) ==
    CASE gen = 1 -> configChanged(prevLambda_, lambda)
      [] gen = 2 -> inputsChanged_g2(prevLambda_, lambda)
      [] gen = 3 -> inputsChanged_g3(prevLambda_, lambda)

LayerLists == {<<>>, <<"arn:aws:lambda:layer:l1">>}

\* records with every key the helpers pick, and keys they do not
ComparedRecords ==
    [description : {"d"}, runtime : {"nodejs12.x"},
     roleArn : {RoleArnOf(UserRoleName)}, handler : {"handler.handler"},
     memory : {DefaultMemory_g3} \cup Memories, timeout : {DefaultTimeout_g3},
     env : {"{}"}, hash : {CodeSha256("_src"), CodeSha256("srcA")},
     securityGroupIds : {None}, subnetIds : {None},
     layers : LayerLists,
     name : UserNames \cup {"f2"},
     src : {None} \cup Sources]

InitChange ==
    /\ gen \in Gens
    /\ state = EmptyState
    /\ roles = [n \in RoleNames |-> "absent"]
    /\ fns = [k \in FnKeys |-> NoFn]
    /\ pc = "idle"
    /\ rolePc = "idle"
    /\ metaPc = "idle"
    /\ op = "none"
    /\ rawIn = NoInputs
    /\ inputs \in ComparedRecords
    /\ prevLambda \in ComparedRecords
    /\ calls = <<>>
    /\ result = "none"
    /\ repeat = FALSE
    /\ rejected = FALSE
    /\ before = EmptyState
    /\ randomId = "rnd"

detectChange ==
    /\ pc = "idle"
    /\ op' = "inputsChanged"
    /\ pc' = "done"
    /\ result' = IF Changed(prevLambda, inputs) THEN "changed" ELSE "unchanged"
    /\ UNCHANGED <<gen, randomId, before, state, roles, fns, rolePc, metaPc, rawIn,
                   inputs, prevLambda, calls, repeat, rejected>>

NextChange == detectChange

SpecChange == InitChange /\ [][NextChange]_vars

\* Generations 2 and 3 deployed with and without a VPC configuration
Next_g2_vpc ==
    \/ returnToCaller
    \/ \E raw \in VpcInputs : deploy_g2(raw)
    \/ getRole_g2
    \/ createRole_g2
    \/ attachRolePolicy_g2
    \/ detachRolePolicy_g2
    \/ deleteRole_g2
    \/ getLambdaFunction_g2
    \/ createLambdaFunction_g2
    \/ sleep_g2
    \/ updateLambdaFunctionCode_g2
    \/ updateLambdaFunctionConfig_g2
    \/ remove_g2
    \/ deleteLambdaFunction_g2

InitVpc == Init2 \/ Init3
NextVpc == Next_g2_vpc \/ Next_g3_inputs
SpecVpc == InitVpc /\ [][NextVpc]_vars

\* the event loop runs whatever is ready: a pass in progress is never left waiting
FairSpec3 == Spec3 /\ WF_vars(Next_g3)


Init == \E g \in Gens : InitGen(g)
Next == Next_g1 \/ Next_g2 \/ Next_g3
Spec == Init /\ [][Next]_vars

----------------------------------------------------------------------------
(* Properties *)

\* a step that starts a deploy / a remove pass
DeployStarts == pc = "idle" /\ pc' # "idle" /\ op' = "deploy"
RemoveStarts == pc = "idle" /\ pc' # "idle" /\ op' = "remove"

\* the update-code and update-configuration calls of a call log
UpdateCalls(log) == Count(log, "updateFunctionCode") + Count(log, "updateFunctionConfiguration")

\* the fetch of the pass found a live function
Fetched == "hash" \in DOMAIN prevLambda

\* the provider calls that take a role, or its policy, away
RoleRemovalOps == {"removeRole", "detachRolePolicy", "deleteRole"}

\* C1: a deploy that repeats the inputs of the successful deploy right before it
\* issues neither an update-code nor an update-configuration call.
C1_RepeatedDeployIssuesNoUpdate ==
    (op = "deploy" /\ repeat) => UpdateCalls(calls) = 0

\* C2: in a deploy pass whose fetch reported the function absent and whose
\* create-function call was not answered role-not-assumable, exactly one
\* create-function call is issued and no update-code or update-configuration call.
C2_AbsentFunctionCreatedOnce ==
    (op = "deploy" /\ prevLambda = Null /\ ~rejected) =>
        /\ UpdateCalls(calls) = 0
        /\ Count(calls, "createFunction") <= 1
        /\ (pc = "done" => Count(calls, "createFunction") = 1)

\* C2, the case: a generation-3 deploy found no function, created it at the first attempt
C2_Witness ==
    /\ gen = 3
    /\ op = "deploy"
    /\ pc = "done"
    /\ result = "ok"
    /\ prevLambda = Null
    /\ ~rejected
    /\ calls[Len(calls)] = <<"createFunction", inputs.name>>

\* C3: a deploy that has come to create the function always ends, handing its
\* caller the function or an error: the create-function call is not retried forever.
C3_CreateRetryIsBounded ==
    (pc = "create") ~> (pc = "done")

\* C4: a deploy called with a name other than the one the state records fails,
\* issues no provider call and leaves the state, the functions and the roles as they were.
C4_RenameIsRejected ==
    [][(DeployStarts /\ state.name # None /\ rawIn'.name # None /\ rawIn'.name # state.name)
          => /\ pc' = "done"
             /\ result' \notin {"ok", "none"}
             /\ calls' = <<>>
             /\ UNCHANGED <<state, fns, roles>>]_vars

\* C5: a deploy whose resolved region differs from the region the state records
\* fails before any provider call and leaves the state (and the provider) as it
\* was; a deploy repeating the inputs of the successful deploy right before it
\* is never rejected as a region change.
C5_RegionChangeIsRejected ==
    /\ [][(DeployStarts /\ state.region # None /\ inputs'.region # state.region)
             => /\ pc' = "done"
                /\ result' \in {"nameChange", "regionChange"}
                /\ calls' = <<>>
                /\ UNCHANGED <<state, fns, roles>>]_vars
    /\ []((op = "deploy" /\ repeat) => result # "regionChange")

\* C5, the case: a deploy was rejected for its region with a region on record
C5_Witness ==
    /\ op = "deploy"
    /\ pc = "done"
    /\ result = "regionChange"
    /\ state.region # None
    /\ inputs.region # state.region
    /\ state.name = inputs.name

\* C6: a successful deploy that found the live function differing from the
\* desired one in its code hash only (memory, timeout and role the same) issued
\* an update-code call and no update-configuration call.
C6_CodeOnlyChangeSkipsConfigUpdate ==
    (/\ op = "deploy" /\ pc = "done" /\ result = "ok"
     /\ Fetched
     /\ prevLambda.hash # CodeSha256(CodeOf(inputs.src))
     /\ prevLambda.memory = inputs.memory
     /\ prevLambda.timeout = inputs.timeout
     /\ prevLambda.role.arn = RoleParam_g3(state))
    => /\ Count(calls, "updateFunctionCode") = 1
       /\ Count(calls, "updateFunctionConfiguration") = 0

\* C7: no remove pass issues a detach-policy or delete-role call against the
\* role the user supplied.
C7_UserRoleIsNeverRemoved ==
    op = "remove" =>
        \A i \in DOMAIN calls :
            ~(calls[i][1] \in RoleRemovalOps /\ calls[i][2] = UserRoleName)

\* C8: a remove called when the state records no function name issues no
\* provider call, returns success and leaves the state (and the provider) as it was.
C8_RemoveWithoutNameIsNoOp ==
    [][(RemoveStarts /\ state.name = None)
          => /\ pc' = "done"
             /\ result' = "ok"
             /\ calls' = <<>>
             /\ UNCHANGED <<state, fns, roles>>]_vars

\* C8, the case: a remove returned at once although an earlier deploy left a role on record
C8_Witness ==
    /\ op = "remove"
    /\ pc = "done"
    /\ result = "ok"
    /\ calls = <<>>
    /\ state.name = None
    /\ state.defaultLambdaRoleName # None

\* C9: once a remove has returned success, no role the component created and no
\* function exists at the provider.
C9_NothingLeftAfterRemove ==
    (op = "remove" /\ pc = "done" /\ result = "ok") =>
        /\ \A n \in RoleNames \ {UserRoleName} : roles[n] = "absent"
        /\ \A k \in FnKeys : fns[k] = NoFn

\* C10: in a remove pass every call that removes a role comes after the
\* delete-function call.
C10_FunctionIsDeletedBeforeRoles ==
    op = "remove" =>
        \A i \in DOMAIN calls :
            calls[i][1] \in RoleRemovalOps =>
                \E j \in 1..(i - 1) : calls[j][1] = "deleteFunction"

\* the errors by which a provider says that the resource is not there
AbsentCodes == {"ResourceNotFoundException", "NoSuchEntity"}

\* the role a remove pass of generations 1 and 2 detaches and deletes
RemovedRoleName == RoleNameOfArn(IF gen = 1 THEN state.roleArn ELSE state.autoRoleArn)

\* C11: no remove pass ends with an already-absent error; a remove whose
\* detach-policy call finds the role or the policy gone goes on to delete the
\* function, and one whose delete-function call finds the function gone returns
\* success (unless the call is answered with another error).
C11_AbsentIsToleratedByRemove ==
    /\ [](op = "remove" => result \notin AbsentCodes)
    /\ [][(/\ op = "remove" /\ pc = "detachRolePolicy"
           /\ roles[RemovedRoleName] # "attached"
           /\ result' # "providerError")
             => pc' = "deleteFunction"]_vars
    /\ [][(/\ op = "remove" /\ pc = "deleteFunction"
           /\ fns[<<state.region, state.name>>] = NoFn
           /\ result' # "providerError")
             => (pc' = "done" /\ result' = "ok")]_vars

\* C11, the case: a remove of generation 2 found its role gone (no delete-role
\* call follows the detach-policy call), called delete-function and returned success
C11_Witness ==
    /\ gen = 2
    /\ op = "remove"
    /\ pc = "done"
    /\ result = "ok"
    /\ Len(calls) = 2
    /\ calls[1][1] = "detachRolePolicy"
    /\ roles[calls[1][2]] = "absent"
    /\ calls[2][1] = "deleteFunction"

\* C12: a remove pass that a provider call fails with another error ends there,
\* failed, with the persisted state as it was; the persisted state changes in a
\* remove pass only in the step that ends it successfully.
C12_FailedRemoveKeepsState ==
    /\ [][(op = "remove" /\ pc \notin {"idle", "done"} /\ result' = "providerError")
             => (pc' = "done" /\ state' = state)]_vars
    /\ [][(op' = "remove" /\ pc' # "idle" /\ state' # state)
             => (pc' = "done" /\ result' = "ok")]_vars

\* C12, the case: a remove of generation 3 removed its roles, its delete-function
\* call failed, and the state still names the function and the roles
C12_Witness ==
    /\ gen = 3
    /\ op = "remove"
    /\ pc = "done"
    /\ result = "providerError"
    /\ Count(calls, "removeRole") > 0
    /\ Count(calls, "deleteFunction") = 1
    /\ state.name # None
    /\ state.defaultLambdaRoleName # None

\* C13: when a remove pass whose state names a function (recorded there by a
\* successful deploy) ends successfully, that function, in the region the state
\* records, does not exist at the provider.
C13_RemovedFunctionIsGone ==
    [][(/\ op = "remove" /\ pc # "done" /\ state.name # None
        /\ pc' = "done" /\ result' = "ok")
          => fns'[<<state.region, state.name>>] = NoFn]_vars

\* C13, the case: a remove of generation 3 deleted the function that a deploy
\* had created and recorded, and no function is left
C13_Witness ==
    /\ gen = 3
    /\ op = "remove"
    /\ pc = "done"
    /\ result = "ok"
    /\ \E i \in 1..Len(calls) : calls[i] = <<"deleteFunction", "f1">>
    /\ rawIn = NoInputs
    /\ state = EmptyState
    /\ \A k \in FnKeys : fns[k] = NoFn

\* C14 (generation 3): a deploy called with no inputs on an instance whose state
\* is empty is not rejected; while the state names no function such a deploy
\* can fail only by a provider error; and every successful deploy returns
\* outputs whose name and arn are defined and are the name and arn it records
\* in the state.
C14_DeployWithNoInputs ==
    /\ [][(DeployStarts /\ state = EmptyState /\ rawIn' = NoRawInputs)
             => (pc' # "done" /\ inputs'.name # None)]_vars
    /\ [](op = "deploy" /\ pc = "done" /\ rawIn = NoRawInputs /\ state.name = None
             => result = "providerError")
    /\ [](op = "deploy" /\ pc = "done" /\ result = "ok"
             => /\ Outputs_g3(inputs).name # None
                /\ Outputs_g3(inputs).arn # None
                /\ state.name = Outputs_g3(inputs).name
                /\ state.arn = Outputs_g3(inputs).arn)

\* C14, the case: a deploy with no inputs created the function under the
\* generated name and returned
C14_Witness ==
    /\ gen = 3
    /\ op = "deploy"
    /\ pc = "done"
    /\ result = "ok"
    /\ rawIn = NoRawInputs
    /\ Count(calls, "createFunction") = 1
    /\ Outputs_g3(inputs).name = GeneratedName
    /\ state.arn = FunctionArnOf("us-east-1", GeneratedName)

\* C15 (generation 3): when a deploy that found the function existing has
\* succeeded, the function's memory and timeout at the provider are those of the
\* pass's inputs: the values the caller gave, the defaults where none was given.
C15_UpdateAppliesMemoryAndTimeout ==
    (op = "deploy" /\ pc = "done" /\ result = "ok" /\ Fetched)
      => LET live == fns[<<inputs.region, inputs.name>>] IN
         /\ live.memory = inputs.memory
         /\ live.timeout = inputs.timeout
         /\ live.memory = OrNum(rawIn.memory, DefaultMemory_g3)
         /\ live.timeout = OrNum(rawIn.timeout, DefaultTimeout_g3)

\* C15, the case: a deploy changed the memory and the timeout of an existing function
C15_Witness ==
    /\ gen = 3
    /\ op = "deploy"
    /\ pc = "done"
    /\ result = "ok"
    /\ Fetched
    /\ Count(calls, "updateFunctionConfiguration") = 1
    /\ rawIn.memory = 3008
    /\ rawIn.timeout = 30
    /\ prevLambda.memory # 3008
    /\ prevLambda.timeout # 30
    /\ fns[<<inputs.region, inputs.name>>].timeout = 30

\* the calls that create or update a function or an execution role
BuildsFunctionOrRole(call) ==
    \/ call[1] \in {"createFunction", "updateFunctionCode", "updateFunctionConfiguration",
                    "createRole", "attachRolePolicy"}
    \/ call[1] = "deployRole" /\ call[2] # metaRoleName

\* C16: a deploy whose inputs name a user role that does not exist at the
\* provider issues no call that creates or updates a function or an execution
\* role, and does not succeed.
C16_MissingUserRoleStopsDeploy ==
    (/\ op = "deploy" /\ pc # "idle"
     /\ (rawIn.roleArn # None \/ rawIn.roleName # None)
     /\ roles[UserRoleName] = "absent")
      => /\ \A i \in 1..Len(calls) : ~BuildsFunctionOrRole(calls[i])
         /\ pc = "done" => result # "ok"

\* the role the inputs of a pass supply: inputs.roleName in generation 3,
\* inputs.roleArn in generation 2
UserRoleGiven ==
    IF gen = 3
    THEN IF rawIn.roleName # None THEN RoleArnOf(rawIn.roleName) ELSE None
    ELSE rawIn.roleArn

\* the role a pass creates when the inputs supply none
AutoRoleOfPass ==
    IF gen = 3
    THEN RoleArnOf(defaultLambdaRoleName(inputs.name))
    ELSE RoleArnOf(iamRoleName(inputs.name))

C18_MetricsBeforeDeployCallsNothing ==
    (op = "metrics" /\ pc # "idle" /\ state.name = None)
      => /\ calls = <<>>
         /\ pc = "done" => result # "ok"

\* C19 (generation 3): a deploy whose inputs set provisionedConcurrency and
\* leave aliasName empty is rejected where it starts, before any provider call.
C19_ConcurrencyWithoutAliasIsRejected ==
    [][(/\ DeployStarts
        /\ "provisionedConcurrency" \in DOMAIN rawIn'
        /\ rawIn'.provisionedConcurrency # 0
        /\ rawIn'.aliasName = None)
          => (pc' = "done" /\ result' \notin {"none", "ok"} /\ calls' = <<>>)]_vars

\* the first place of a call of the given name in the call log, 0 when there is none
FirstCall(log, opName) ==
    IF Count(log, opName) = 0
    THEN 0
    ELSE CHOOSE i \in DOMAIN log :
           log[i][1] = opName /\ \A j \in DOMAIN log : log[j][1] = opName => i <= j

\* C20 (generation 3): a successful deploy whose inputs request provisioned
\* concurrency with an alias name has issued create-alias and, after it,
\* apply-concurrency.  (The second half of the claim, remove-concurrency and
\* then delete-alias on clearing, needs an alias to exist first.)
C20_AliasIsCreatedThenConcurrencyApplied ==
    (/\ op = "deploy" /\ pc = "done" /\ result = "ok"
     /\ "provisionedConcurrency" \in DOMAIN rawIn
     /\ rawIn.provisionedConcurrency # 0
     /\ rawIn.aliasName # None)
      => /\ FirstCall(calls, "createAlias") > 0
         /\ FirstCall(calls, "putProvisionedConcurrencyConfig")
              > FirstCall(calls, "createAlias")

\* the call a step issues, when it issues one
IssuesCall == Len(calls') = Len(calls) + 1
IssuedCall == calls'[Len(calls')]

\* C21: no step of a deploy or remove pass issues a delete-role call for a role
\* that a live function references at that moment.
C21_NoReferencedRoleIsDeleted ==
    [][(IssuesCall /\ IssuedCall[1] \in {"deleteRole", "removeRole"})
          => \A k \in FnKeys : fns[k].role # RoleArnOf(IssuedCall[2])]_vars

\* the auto-created role a state records as the instance's own, None when it records none
RecordedAutoRole(st) ==
    IF gen = 3
    THEN st.defaultLambdaRoleName
    ELSE IF st.autoRoleArn # None THEN RoleNameOfArn(st.autoRoleArn) ELSE None

\* C22 (generations 2 and 3): when a deploy whose inputs supply a user role has
\* succeeded and the state recorded an auto-created role when the pass started,
\* that role does not exist at the provider and the state records no
\* auto-created role.
C22_UserRoleReplacesAutoRole ==
    (/\ gen \in {2, 3} /\ op = "deploy" /\ pc = "done" /\ result = "ok"
     /\ UserRoleGiven # None
     /\ RecordedAutoRole(before) # None)
      => /\ roles[RecordedAutoRole(before)] = "absent"
         /\ RecordedAutoRole(state) = None

\* C23 (generation 3): a deploy whose inputs supply no user role, on an
\* instance whose last successful deploy used a user-supplied role, does not
\* succeed, creates no auto-created role and leaves the role of the live
\* function as it is.
C23_DroppingUserRoleIsRejected ==
    (/\ gen = 3 /\ op = "deploy" /\ pc # "idle"
     /\ before.userRoleArn # None /\ before.name # None
     /\ UserRoleGiven = None)
      => /\ pc = "done" => result # "ok"
         /\ \A i \in 1..Len(calls) : calls[i][1] \notin {"deployRole", "createRole"}
                                       \/ calls[i][2] = metaRoleName
         /\ \A k \in FnKeys : fns[k] # NoFn => fns[k].role = before.userRoleArn

\* C23 as amended (generation 3): such a deploy is accepted. Where it starts it
\* can be rejected only for a changed name or region, and otherwise issues the
\* deploy-role call for the default role; when it has succeeded the live
\* function runs under the default role and the state records the default role
\* and no user role.
C23_DroppingUserRoleSwitchesToDefaultRole ==
    /\ [][(/\ gen = 3 /\ DeployStarts
           /\ state.userRoleArn # None /\ state.name # None
           /\ rawIn'.roleName = None)
             => IF pc' = "done"
                THEN result' \in {"nameChange", "regionChange"}
                ELSE \E i \in 1..Len(calls') :
                       calls'[i] = <<"deployRole", defaultLambdaRoleName(inputs'.name)>>]_vars
    /\ []((/\ gen = 3 /\ op = "deploy" /\ pc = "done" /\ result = "ok"
           /\ before.userRoleArn # None /\ before.name # None
           /\ UserRoleGiven = None)
             => /\ fns[<<inputs.region, inputs.name>>].role = AutoRoleOfPass
                /\ state.defaultLambdaRoleArn = AutoRoleOfPass
                /\ state.userRoleArn = None)

\* C23, the case: the function was deployed under the user's role and a deploy
\* without a role has succeeded
C23_Witness ==
    /\ gen = 3
    /\ op = "deploy"
    /\ pc = "done"
    /\ result = "ok"
    /\ before.userRoleArn = RoleArnOf(UserRoleName)
    /\ before.name # None
    /\ rawIn.roleName = None
    /\ Count(calls, "updateFunctionConfiguration") = 1
    /\ state.userRoleArn = None

\* the names under which the component creates execution roles
AutoRoleNames == RoleNames \ {UserRoleName, metaRoleName}

\* C24 (generations 1 and 2): a create-role call is issued only when no
\* auto-created execution role exists at the provider, and at no time does
\* more than one exist.
C24_AutoRoleIsCreatedOnce ==
    /\ [][(IssuesCall /\ IssuedCall[1] = "createRole")
             => \A n \in AutoRoleNames : roles[n] = "absent"]_vars
    /\ [](Cardinality({n \in AutoRoleNames : roles[n] # "absent"}) <= 1)

\* C25 (generation 3): a deploy whose inputs set monitoring to false issues no
\* call for the meta role and records no meta role that the state did not
\* hold when the pass started.
C25_MonitoringOffSkipsMetaRole ==
    (op = "deploy" /\ pc # "idle" /\ rawIn.monitoring = "false")
      => /\ \A i \in 1..Len(calls) : calls[i][2] # metaRoleName
         /\ state.metaRoleName = before.metaRoleName
         /\ state.metaRoleArn = before.metaRoleArn

LastCall == calls[Len(calls)]

\* C26 (generation 3): when getFunctionConfiguration answers a deploy, either the
\* pass ends there with the provider's error, keeping what it fetched unset, or
\* the function is taken as absent exactly when the provider holds none of that
\* name; and createFunction, updateFunctionCode and updateFunctionConfiguration
\* are issued only in a pass whose fetch was answered so.
C26_FailedFetchStopsDeploy ==
    /\ [][(gen = 3 /\ IssuesCall /\ IssuedCall[1] = "getFunctionConfiguration")
             => \/ /\ pc' = "done"
                   /\ result' = "providerError"
                   /\ prevLambda' = NotFetched
                \/ /\ pc' = "create"
                   /\ prevLambda' = Null
                   /\ fns[<<inputs.region, inputs.name>>] = NoFn
                \/ /\ pc' = "updateCode"
                   /\ Fetched'
                   /\ fns[<<inputs.region, inputs.name>>] # NoFn]_vars
    /\ []((gen = 3 /\ op = "deploy" /\ prevLambda = NotFetched)
             => Count(calls, "createFunction") + UpdateCalls(calls) = 0)

C26_Witness ==
    /\ gen = 3
    /\ op = "deploy"
    /\ pc = "done"
    /\ result = "providerError"
    /\ calls # <<>>
    /\ LastCall[1] = "getFunctionConfiguration"
    /\ prevLambda = NotFetched
    /\ Count(calls, "createFunction") + UpdateCalls(calls) = 0

CodeUploadedBefore(log) == Count(log, "updateFunctionCode") > 0

\* C27: within a deploy, updateFunctionCode is never issued after
\* updateFunctionConfiguration, and when updateFunctionConfiguration is issued in
\* a pass that issued updateFunctionCode, the upload has completed: the provider
\* holds the hash of the uploaded code. A pass whose upload failed issues no
\* updateFunctionConfiguration.
C27_CodeIsUpdatedBeforeConfig ==
    /\ [][(IssuesCall /\ IssuedCall[1] = "updateFunctionCode")
             => Count(calls, "updateFunctionConfiguration") = 0]_vars
    /\ [][(IssuesCall /\ IssuedCall[1] = "updateFunctionConfiguration"
             /\ CodeUploadedBefore(calls))
             => fns[<<inputs.region, inputs.name>>].hash
                  = CodeSha256(CodeOf(inputs.src))]_vars
    /\ []((op = "deploy" /\ pc = "done" /\ result = "providerError" /\ calls # <<>>
             /\ LastCall[1] = "updateFunctionCode")
             => Count(calls, "updateFunctionConfiguration") = 0)

\* a deploy that uploaded new code and then updated the configuration
C27_Witness ==
    /\ op = "deploy"
    /\ pc = "done"
    /\ result = "ok"
    /\ CodeUploadedBefore(calls)
    /\ FirstCall(calls, "updateFunctionCode") < FirstCall(calls, "updateFunctionConfiguration")
    /\ Fetched
    /\ prevLambda.hash # fns[<<inputs.region, inputs.name>>].hash

\* C28 (generation 3): a remove that found a function in its state and whose
\* role removal failed has still issued deleteFunction when it returns.
C28_FailedRoleRemovalStillDeletesFunction ==
    (/\ gen = 3 /\ op = "remove" /\ pc = "done"
     /\ before.name # None
     /\ Count(calls, "removeRole") > 0
     /\ result = "providerError")
      => Count(calls, "deleteFunction") > 0

\* C29: a deploy that fails leaves every field of this.state as it was when the
\* pass started.
C29_FailedDeployKeepsState ==
    (op = "deploy" /\ pc = "done" /\ result # "ok") => state = before

\* C30 (generations 2 and 3): createFunction is issued only for a name under
\* which the provider holds no function, and a deploy that repeats the inputs of
\* the successful deploy right before it, whatever this.state holds by then,
\* issues no createFunction and is not refused for a change of name or region.
C30_RerunCreatesNoSecondFunction ==
    /\ [][(IssuesCall /\ IssuedCall[1] = "createFunction")
             => fns[<<inputs.region, inputs.name>>] = NoFn]_vars
    /\ []((op = "deploy" /\ pc # "idle" /\ repeat)
             => /\ Count(calls, "createFunction") = 0
                /\ result \notin {"nameChange", "regionChange"})

FunctionCallNames ==
    {"getFunctionConfiguration", "createFunction", "updateFunctionCode",
     "updateFunctionConfiguration"}

FunctionCallsIn(log) == {i \in DOMAIN log : log[i][1] \in FunctionCallNames}

\* C31 (generation 3): a deploy issues getFunctionConfiguration, createFunction,
\* updateFunctionCode or updateFunctionConfiguration only when both role tasks
\* of the pass have resolved, and a pass in which the execution-role task or the
\* meta-role task was rejected has issued none of those calls.
C31_FunctionCallsFollowRoleSteps ==
    /\ [][(gen = 3 /\ IssuesCall /\ IssuedCall[1] \in FunctionCallNames)
             => rolePc = "done" /\ metaPc = "done"]_vars
    /\ []((gen = 3 /\ op = "deploy" /\ (rolePc = "failed" \/ metaPc = "failed"))
             => FunctionCallsIn(calls) = {})

\* the execution role was deployed, the meta role's deployRole was rejected
C31_Witness ==
    /\ gen = 3
    /\ op = "deploy"
    /\ pc = "done"
    /\ result = "providerError"
    /\ rolePc = "done"
    /\ metaPc = "failed"
    /\ Count(calls, "deployRole") = 2
    /\ FunctionCallsIn(calls) = {}

ExecutionRoleFields == {"userRoleArn", "defaultLambdaRoleName", "defaultLambdaRoleArn"}
MetaRoleFields == {"metaRoleName", "metaRoleArn"}

\* C32 (generation 3): when both role tasks of a deploy have resolved, in
\* whatever order, this.state holds the ARN of the execution role of the pass and
\* the ARN of the meta role; the step in which the execution-role task resolves
\* leaves the meta role's fields as they were, and the step in which the
\* meta-role task resolves leaves the execution role's fields as they were.
C32_RoleStepsRecordBothRoles ==
    /\ []((gen = 3 /\ op = "deploy" /\ pc # "idle" /\ rolePc = "done" /\ metaPc = "done")
            => /\ state.metaRoleArn = RoleArnOf(metaRoleName)
               /\ IF inputs.roleName # None
                  THEN state.userRoleArn = RoleArnOf(inputs.roleName)
                  ELSE state.defaultLambdaRoleArn
                         = RoleArnOf(defaultLambdaRoleName(inputs.name)))
    /\ [][(gen = 3 /\ rolePc = "wait" /\ rolePc' = "done")
            => \A f \in MetaRoleFields : state'[f] = state[f]]_vars
    /\ [][(gen = 3 /\ metaPc = "wait" /\ metaPc' = "done")
            => \A f \in ExecutionRoleFields : state'[f] = state[f]]_vars

\* the meta-role task resolved after the execution-role task, on a new instance
C32_Witness ==
    /\ gen = 3
    /\ op = "deploy"
    /\ pc = "roles"
    /\ rolePc = "done"
    /\ metaPc = "done"
    /\ before.metaRoleArn = None
    /\ before.defaultLambdaRoleArn = None
    /\ state.metaRoleArn = RoleArnOf(metaRoleName)
    /\ state.defaultLambdaRoleArn = RoleArnOf(defaultLambdaRoleName(inputs.name))

\* C33 (generation 3): once a deploy has thrown because the role named in the
\* inputs does not exist, no step of that pass changes a role at the provider or
\* writes this.state.
C33_NothingHappensAfterMissingRoleFailure ==
    [][(gen = 3 /\ op = "deploy" /\ pc = "done" /\ result = "roleNotFound")
          => roles' = roles /\ state' = state]_vars

ComparableSet ==
    {"description", "runtime", "roleArn", "handler", "memory", "timeout",
     "env", "hash", "securityGroupIds", "subnetIds", "layers"}

\* C34: change detection reports a change exactly when the observed record and
\* the desired record differ in a field of the comparable set, layers included.
C34_ChangeIffComparableFieldDiffers ==
    (op = "inputsChanged" /\ pc = "done")
      => ((result = "changed")
            <=> \E f \in ComparableSet : Get(prevLambda, f) # Get(inputs, f))

\* C35: against the same observed record, every desired record that agrees with
\* the one compared on each field of the comparable set gets the same answer
\* from change detection, whatever its other fields (name, src) hold.
C35_OtherFieldsDoNotCount ==
    (op = "inputsChanged" /\ pc = "done")
      => \A other \in ComparedRecords :
           (\A f \in ComparableSet : other[f] = inputs[f])
             => (Changed(prevLambda, other) <=> result = "changed")

\* records that differ in name and src only were found unchanged
C35_Witness ==
    /\ op = "inputsChanged"
    /\ pc = "done"
    /\ result = "unchanged"
    /\ inputs.name # prevLambda.name
    /\ inputs.src # prevLambda.src
    /\ \E other \in ComparedRecords :
         /\ other.name # inputs.name
         /\ \A f \in ComparableSet : other[f] = inputs[f]

DesiredVpc(in) ==
    IF in.securityGroupIds # None
    THEN [SecurityGroupIds |-> in.securityGroupIds, SubnetIds |-> in.subnetIds]
    ELSE EmptyVpc

\* C36 (generations 2 and 3): a configuration update that succeeds leaves the
\* function with the memory, the timeout and the VPC configuration of the
\* prepared inputs, empty id lists when the inputs hold no VPC configuration; so
\* after a successful deploy whose inputs gave no vpcConfig the function is in
\* no VPC, whatever it was deployed with before.
C36_ConfigUpdateIsWholeRecord ==
    /\ [][(gen \in {2, 3} /\ IssuesCall /\ IssuedCall[1] = "updateFunctionConfiguration"
             /\ pc' = "done" /\ result' = "ok")
            => LET f == fns'[<<inputs.region, inputs.name>>] IN
               /\ f.memory = inputs.memory
               /\ f.timeout = inputs.timeout
               /\ f.vpc = DesiredVpc(inputs)]_vars
    /\ []((gen \in {2, 3} /\ op = "deploy" /\ pc = "done" /\ result = "ok"
             /\ VpcConfigOf(rawIn) = NoVpcConfig)
            => fns[<<inputs.region, inputs.name>>].vpc = EmptyVpc)

\* a function found in a VPC was updated by a deploy that gave no vpcConfig
C36_Witness ==
    /\ op = "deploy"
    /\ pc = "done"
    /\ result = "ok"
    /\ Fetched
    /\ prevLambda.securityGroupIds \in {c.securityGroupIds : c \in VpcConfigs}
    /\ VpcConfigOf(rawIn) = NoVpcConfig
    /\ Count(calls, "updateFunctionConfiguration") = 1
    /\ fns[<<inputs.region, inputs.name>>].vpc = EmptyVpc

\* C37 (generation 3): a deploy waits to call createFunction again only after a
\* createFunction of the pass was answered role-not-assumable; once the pass has
\* thrown it issues no further call; and a pass that ended with the provider's
\* error to createFunction leaves name, arn and region of this.state as they
\* were when it started.
C37_OtherCreateFailureIsNotRetried ==
    /\ []((gen = 3 /\ pc = "sleep") => rejected)
    /\ [][(gen = 3 /\ pc = "done" /\ pc' = "done") => calls' = calls]_vars
    /\ []((gen = 3 /\ op = "deploy" /\ pc = "done" /\ result = "providerError"
             /\ calls # <<>> /\ LastCall[1] = "createFunction")
            => /\ state.name = before.name
               /\ state.arn = before.arn
               /\ state.region = before.region)

\* the first createFunction of a pass failed and the pass ended with its error
C37_Witness ==
    /\ gen = 3
    /\ op = "deploy"
    /\ pc = "done"
    /\ result = "providerError"
    /\ calls # <<>>
    /\ LastCall[1] = "createFunction"
    /\ Count(calls, "createFunction") = 1
    /\ ~rejected
    /\ state.name = None
    /\ \A k \in FnKeys : fns[k] = NoFn

\* C38 (generation 3): the name a deploy works on is the name in its inputs when
\* one is given, else the name in this.state when one is recorded, else the
\* generated name; so a deploy without a name that follows a recorded name works
\* on that name and is not refused as a change of name.
C38_NameComesFromInputsThenState ==
    /\ [][(gen = 3 /\ DeployStarts)
            => inputs'.name = IF rawIn'.name # None THEN rawIn'.name
                              ELSE IF state.name # None THEN state.name
                              ELSE GeneratedName]_vars
    /\ []((gen = 3 /\ op = "deploy" /\ pc # "idle" /\ rawIn.name = None
             /\ before.name # None)
            => inputs.name = before.name /\ result # "nameChange")

\* a function deployed under a given name was deployed again without a name
C38_Witness ==
    /\ gen = 3
    /\ op = "deploy"
    /\ pc = "done"
    /\ result = "ok"
    /\ rawIn.name = None
    /\ before.name \in UserNames
    /\ inputs.name = before.name
    /\ Count(calls, "createFunction") = 0
    /\ Count(calls, "updateFunctionConfiguration") = 1

\* C39 (generations 2 and 3): when a remove has returned without an error,
\* this.state is empty; a remove started right after it returns at once with no
\* provider call, and a deploy started right after it is not refused for a
\* change of name or region.
C39_RemoveEmptiesState ==
    /\ []((gen \in {2, 3} /\ op = "remove" /\ pc = "done" /\ result = "ok")
            => state = EmptyState)
    /\ [][(gen \in {2, 3} /\ op = "remove" /\ result = "ok" /\ RemoveStarts)
            => pc' = "done" /\ result' = "ok" /\ calls' = <<>>]_vars
    /\ [][(gen \in {2, 3} /\ op = "remove" /\ result = "ok" /\ DeployStarts)
            => result' \notin {"nameChange", "regionChange"}]_vars

\* C40 (generations 1 and 2): when removeRole returns without throwing, the
\* role it was called for no longer exists at the provider.
C40_RemovedRoleIsGone ==
    [][(/\ gen \in {1, 2}
        /\ pc \in {"detachRolePolicy", "deleteRole"}
        /\ pc' \in {"getFunction", "deleteFunction"})
          => roles'[RemovedRoleName] = "absent"]_vars

====
